---- MODULE Spec2Model ----
(***************************************************************************)
(* A model of rehype-astro-images (src/index.js): one pass of the          *)
(* transformer returned by rehypeAstroImages over one document, and the    *)
(* asset file naming it hands to the image optimizer.                      *)
(*                                                                         *)
(* Strings are TLA+ strings; JS string methods are the operators below.    *)
(* The tree is the sequence of its nodes in the order unist-util-visit     *)
(* visits them (depth first, preorder).                                    *)
(***************************************************************************)
EXTENDS Integers, Sequences, FiniteSets, TLC

(***************************************************************************)
(* Bounds of the model.                                                    *)
(***************************************************************************)
\* the longest document, in nodes
MaxNodes == 3
\* the largest N written in a [hash:N] token
MaxHashSize == 11

(***************************************************************************)
(* JS string helpers.                                                      *)
(***************************************************************************)
Min(a, b) == IF a < b THEN a ELSE b
Max(a, b) == IF a > b THEN a ELSE b

\* s[i], 1-based; "" outside the string
CharAt(s, i) == IF i >= 1 /\ i <= Len(s) THEN SubSeq(s, i, i) ELSE ""

\* String.prototype.startsWith
StartsWith(s, p) == Len(s) >= Len(p) /\ SubSeq(s, 1, Len(p)) = p

\* String.prototype.slice(from, to) with 0 <= from, 0 <= to
Slice(s, from, to) == SubSeq(s, from + 1, Min(to, Len(s)))

\* String.prototype.substring(from) / slice(from)
SliceFrom(s, from) == SubSeq(s, from + 1, Len(s))

\* String.prototype.lastIndexOf(c) + 1 for a one character c: 0 when absent
RECURSIVE LastIndexFrom(_, _, _)
LastIndexFrom(s, c, i) ==
  IF i = 0 THEN 0
  ELSE IF CharAt(s, i) = c THEN i
  ELSE LastIndexFrom(s, c, i - 1)

LastIndexOf(s, c) == LastIndexFrom(s, c, Len(s))

Digits == <<"0", "1", "2", "3", "4", "5", "6", "7", "8", "9">>

DigitChars == {Digits[i] : i \in 1..10}

\* \w of a JS regular expression
WordChars ==
  DigitChars \cup
  {"a", "b", "c", "d", "e", "f", "g", "h", "i", "j", "k", "l", "m", "n", "o",
   "p", "q", "r", "s", "t", "u", "v", "w", "x", "y", "z",
   "A", "B", "C", "D", "E", "F", "G", "H", "I", "J", "K", "L", "M", "N", "O",
   "P", "Q", "R", "S", "T", "U", "V", "W", "X", "Y", "Z", "_"}

DigitValue(c) == CHOOSE d \in 0..9 : Digits[d + 1] = c

\* Number.parseInt of a string of decimal digits
RECURSIVE ParseInt(_)
ParseInt(s) ==
  IF Len(s) = 0 THEN 0
  ELSE 10 * ParseInt(SubSeq(s, 1, Len(s) - 1)) + DigitValue(CharAt(s, Len(s)))

\* String(n) for a natural number n
RECURSIVE NumberToString(_)
NumberToString(n) ==
  IF n < 10 THEN Digits[n + 1]
  ELSE NumberToString(n \div 10) \o Digits[(n % 10) + 1]

(***************************************************************************)
(* node:path (posix).                                                      *)
(***************************************************************************)
\* the segments of p between its "/" characters
RECURSIVE SplitPath(_, _, _)
SplitPath(p, i, cur) ==
  IF i > Len(p) THEN <<cur>>
  ELSE IF CharAt(p, i) = "/" THEN <<cur>> \o SplitPath(p, i + 1, "")
  ELSE SplitPath(p, i + 1, cur \o CharAt(p, i))

\* normalisation of the segments of an absolute path: "" and "." are dropped,
\* ".." removes the segment before it
RECURSIVE NormalizeSegments(_, _)
NormalizeSegments(segs, acc) ==
  IF segs = <<>> THEN acc
  ELSE LET s == Head(segs) IN
    IF s = "" \/ s = "." THEN NormalizeSegments(Tail(segs), acc)
    ELSE IF s = ".." THEN
      NormalizeSegments(Tail(segs),
                        IF acc = <<>> THEN acc ELSE SubSeq(acc, 1, Len(acc) - 1))
    ELSE NormalizeSegments(Tail(segs), Append(acc, s))

RECURSIVE JoinSegments(_)
JoinSegments(segs) ==
  IF segs = <<>> THEN "" ELSE "/" \o Head(segs) \o JoinSegments(Tail(segs))

NormalizeAbsolute(p) ==
  LET segs == NormalizeSegments(SplitPath(p, 1, ""), <<>>)
  IN IF segs = <<>> THEN "/" ELSE JoinSegments(segs)

\* path.resolve(...parts): from the right, parts are prepended until the path
\* is absolute; the first part of every call here is an absolute path
RECURSIVE ResolveFrom(_, _, _)
ResolveFrom(parts, i, acc) ==
  IF i = 0 \/ StartsWith(acc, "/") THEN acc
  ELSE IF parts[i] = "" THEN ResolveFrom(parts, i - 1, acc)
  ELSE ResolveFrom(parts, i - 1,
                   IF acc = "" THEN parts[i] ELSE parts[i] \o "/" \o acc)

PathResolve(parts) == NormalizeAbsolute(ResolveFrom(parts, Len(parts), ""))

\* path.dirname of a path with no trailing slash
PathDirname(p) ==
  LET i == LastIndexOf(p, "/")
  IN IF i = 0 THEN "." ELSE IF i = 1 THEN "/" ELSE SubSeq(p, 1, i - 1)

\* path.basename of a path with no trailing slash
PathBasename(p) == SliceFrom(p, LastIndexOf(p, "/"))

\* path.extname: from the last "." of the base name, "" when there is none or
\* when it is the base name's first character
PathExtname(p) ==
  LET base == PathBasename(p)
      i == LastIndexOf(base, ".")
  IN IF i <= 1 THEN "" ELSE SliceFrom(base, i - 1)

(***************************************************************************)
(* The file system and the content hash.  sha256 is not computed: every    *)
(* file of the model comes with the hex digest of its bytes.               *)
(***************************************************************************)
rootPath == "/proj"

documentPath == "/proj/src/pages/post.md"

ExistingFiles ==
  {"/proj/src/assets/photo.png", "/proj/src/pages/b.png", "/proj/src/pages/c.tar.gz"}

\* fs.existsSync
existsSync(absolutePath) == absolutePath \in ExistingFiles

\* createHash('sha256').update(imageSource).digest('hex') of the file's bytes
Sha256Hex(absolutePath) ==
  CASE absolutePath = "/proj/src/assets/photo.png" ->
         "abcdef1234567890abcdef1234567890abcdef1234567890abcdef1234567890"
    [] absolutePath = "/proj/src/pages/b.png" ->
         "0123456789abcdeffedcba98765432100123456789abcdeffedcba9876543210"
    [] OTHER ->
         "9f86d081884c7d659a2feaa0c55ad015a3bf4f1b2b0b822cd15d6c15b0f00a08"

\* getImageSource: the bytes of the file, named here by the file's path
getImageSource(imagePath) == imagePath

\* getImageHash
getImageHash(imageSource) == Slice(Sha256Hex(imageSource), 0, Max(0, 8))

(***************************************************************************)
(* Asset file naming.  A call that may throw returns [threw, value].       *)
(***************************************************************************)
defaultHashSize == 8

Returned(v) == [threw |-> FALSE, value |-> v]

\* the Error of line 151
MultipleOutputsError == "Error: We don't know how to handle multiple output options"

\* the TypeError of calling replacements[type] when it is undefined (line 220)
NotAFunctionError == "TypeError: replacements[type] is not a function"

Threw(e) == [threw |-> TRUE, value |-> e]

\* the argument of a replacement: undefined, or a number
Undefined == [defined |-> FALSE, n |-> 0]

Number(k) == [defined |-> TRUE, n |-> k]

\* size || defaultHashSize
OrDefault(size, default) == IF size.defined /\ size.n # 0 THEN size.n ELSE default

\* replacements[type](size), replacements being the object literal that
\* generateAssetFileName builds from name and sourceHash.  A type that is no
\* key of the literal is looked up on Object.prototype: its methods are
\* called, anything else is not a function and the call throws a TypeError.
replacements(name, sourceHash, type, size) ==
  CASE type = "ext" -> Returned(SliceFrom(PathExtname(name), 1))
    [] type = "extname" -> Returned(PathExtname(name))
    [] type = "hash" ->
         Returned(Slice(sourceHash, 0, Max(0, OrDefault(size, defaultHashSize))))
    [] type = "name" ->
         Returned(Slice(name, 0, Max(0, Len(name) - Len(PathExtname(name)))))
    [] type \in {"toString", "toLocaleString", "valueOf"} ->
         Returned("[object Object]")
    [] type \in {"hasOwnProperty", "isPrototypeOf", "propertyIsEnumerable"} ->
         Returned("false")
    [] type = "constructor" ->
         Returned(IF size.defined THEN NumberToString(size.n) ELSE "[object Object]")
    [] OTHER -> Threw(NotAFunctionError)

\* the last index of the run of characters of set cs that starts at i (i - 1
\* when the run is empty)
RECURSIVE RunEnd(_, _, _)
RunEnd(s, i, cs) ==
  IF CharAt(s, i) \in cs THEN RunEnd(s, i + 1, cs) ELSE i - 1

\* one match of /\[(\w+)(:\d+)?]/ anchored at index i of pattern
MatchToken(pattern, i) ==
  LET w == RunEnd(pattern, i + 1, WordChars)
      d == RunEnd(pattern, w + 2, DigitChars)
      noMatch == [matched |-> FALSE, type |-> "", size |-> "", end |-> i]
  IN IF CharAt(pattern, i) # "[" \/ w < i + 1 THEN noMatch
     ELSE IF CharAt(pattern, w + 1) = "]" THEN
       [matched |-> TRUE, type |-> SubSeq(pattern, i + 1, w), size |-> "",
        end |-> w + 1]
     ELSE IF CharAt(pattern, w + 1) = ":" /\ d >= w + 2 /\ CharAt(pattern, d + 1) = "]" THEN
       [matched |-> TRUE, type |-> SubSeq(pattern, i + 1, w),
        size |-> SubSeq(pattern, w + 1, d), end |-> d + 1]
     ELSE noMatch

\* pattern.replace(/\[(\w+)(:\d+)?]/g, callback) from index i on, acc being
\* the output so far; the first callback that throws ends the call
RECURSIVE ReplaceFrom(_, _, _, _, _)
ReplaceFrom(pattern, name, sourceHash, i, acc) ==
  IF i > Len(pattern) THEN Returned(acc)
  ELSE LET m == MatchToken(pattern, i) IN
    IF ~m.matched THEN
      ReplaceFrom(pattern, name, sourceHash, i + 1, acc \o CharAt(pattern, i))
    ELSE LET r == replacements(name, sourceHash, m.type,
                               IF m.size = "" THEN Undefined
                               ELSE Number(ParseInt(SliceFrom(m.size, 1))))
         IN IF r.threw THEN r
            ELSE ReplaceFrom(pattern, name, sourceHash, m.end + 1, acc \o r.value)

renderNamePattern(pattern, name, sourceHash) ==
  ReplaceFrom(pattern, name, sourceHash, 1, "")

\* a value of output.assetFileNames: undefined, a string, or a function (the
\* model's functions return their value whatever the asset)
NoAssetFileNames == [kind |-> "undefined", value |-> ""]

CallAssetFileNames(assetFileNames, assetInfo) == assetFileNames.value

\* a variant that hands the function's return value on as the file name
generateAssetFileNameVerbatim(name, source, sourceHash, assetFileNames) ==
  IF assetFileNames.kind = "function"
  THEN Returned(CallAssetFileNames(assetFileNames,
                                   [name |-> name, source |-> source, type |-> "asset"]))
  ELSE renderNamePattern(assetFileNames.value, name, sourceHash)

generateAssetFileName(name, source, sourceHash, assetFileNames) ==
  renderNamePattern(
    IF assetFileNames.kind = "function"
    THEN CallAssetFileNames(assetFileNames,
                            [name |-> name, source |-> source, type |-> "asset"])
    ELSE assetFileNames.value,
    name, sourceHash)

defaultAssetFileNames == [kind |-> "string", value |-> "assets/[name]-[hash][extname]"]

\* viteConfig?.build?.rollupOptions?.output?.assetFileNames || the default
assetFileNamesOf(viteConfig) ==
  IF viteConfig.output # "object"
     \/ viteConfig.assetFileNames.kind = "undefined"
     \/ (viteConfig.assetFileNames.kind = "string" /\ viteConfig.assetFileNames.value = "")
  THEN defaultAssetFileNames
  ELSE viteConfig.assetFileNames

getImageAssetFileName(absolutePath, viteConfig) ==
  LET source == getImageSource(absolutePath)
      sourceHash == getImageHash(source)
  IN IF viteConfig.output = "array"
     THEN Threw(MultipleOutputsError)
     ELSE generateAssetFileName(PathBasename(absolutePath), source, sourceHash,
                                assetFileNamesOf(viteConfig))

(***************************************************************************)
(* URLs.                                                                   *)
(***************************************************************************)
absolutize(path) == IF StartsWith(path, "/") THEN "/" \o path ELSE path

\* options.rootUrl: undefined, or a base URL given by its origin and its path
NoRootUrl == [defined |-> FALSE, scheme |-> "", host |-> "", pathname |-> ""]

\* new URL(relative, base).toString() for a reference with no dot segments,
\* query or fragment
NewURL(relative, base) ==
  IF StartsWith(relative, "https://") \/ StartsWith(relative, "http://") THEN relative
  ELSE IF StartsWith(relative, "//") THEN base.scheme \o relative
  ELSE IF StartsWith(relative, "/") THEN base.scheme \o "//" \o base.host \o relative
  ELSE base.scheme \o "//" \o base.host
       \o SubSeq(base.pathname, 1, LastIndexOf(base.pathname, "/")) \o relative

(***************************************************************************)
(* The document: the tree, the file and the options.                       *)
(***************************************************************************)
Element(tagName, src) ==
  [type |-> "element", tagName |-> tagName, src |-> [isString |-> TRUE, value |-> src]]

\* the references of the model: the alias, two spellings of one file, a file
\* that does not exist, a path that leaves the document's directory
AliasRef == "~/assets/photo.png"

DotRef == "./b.png"

BareRef == "b.png"

MissingRef == "./missing.png"

UncollectedRef == "c.tar.gz"

CollectedRefs == {AliasRef, DotRef, BareRef, MissingRef}

NodeKinds ==
  {Element("img", r) : r \in CollectedRefs \cup {UncollectedRef}}
  \cup {Element("a", DotRef)}

RECURSIVE SeqsUpTo(_, _)
SeqsUpTo(S, n) ==
  IF n = 0 THEN {<<>>}
  ELSE LET shorter == SeqsUpTo(S, n - 1)
       IN shorter \cup {Append(t, x) : t \in {u \in shorter : Len(u) = n - 1}, x \in S}

Trees == SeqsUpTo(NodeKinds, MaxNodes)

\* file.data.imagePaths: absent, something that is no Set, or a Set
ImagePaths(kind, refs) == [kind |-> kind, refs |-> refs]

CollectedFile == [path |-> documentPath, imagePaths |-> ImagePaths("set", CollectedRefs)]

\* the files the first test of the transformer turns away
EmptyFiles ==
  {[path |-> documentPath, imagePaths |-> ImagePaths("undefined", {})],
   [path |-> documentPath, imagePaths |-> ImagePaths("array", CollectedRefs)],
   [path |-> documentPath, imagePaths |-> ImagePaths("set", {})],
   [path |-> "", imagePaths |-> ImagePaths("set", CollectedRefs)]}

NoViteConfig == [output |-> "undefined", assetFileNames |-> NoAssetFileNames]

OutputWith(kind, value) ==
  [output |-> "object", assetFileNames |-> [kind |-> kind, value |-> value]]

RootUrls ==
  {NoRootUrl,
   [defined |-> TRUE, scheme |-> "https:", host |-> "example.com", pathname |-> "/blog/"]}

\* the src of the optimizer's result is the asset's file name under a prefix
\* of the optimizer's own
ImagePrefixes == {"/_astro/", "_astro/"}

(***************************************************************************)
(* The state of one pass.                                                  *)
(***************************************************************************)
VARIABLES
  options,          \* the plugin's options: rootUrl, viteConfig
  file,             \* the vfile: path, data.imagePaths
  tree,             \* the nodes, as the pass leaves them
  inputTree,        \* the nodes, as the pass found them
  imagePrefix,      \* the optimizer's URL prefix
  pc,               \* "idle", "awaiting" (at the await of line 118), "done", "rejected"
  imageNodes,       \* indices of the nodes to rewrite, in visit order
  imagesToResolve,  \* the Map src -> absolute path, in insertion order
  imagePromises,    \* one pipeline per entry of imagesToResolve
  resolvedImages,   \* the Map src -> resolved src
  calls,            \* calls made to fs.existsSync, imageMetadata, getImage, console.warn
  naming            \* the asset naming on its own: its input and its result

vars ==
  <<options, file, tree, inputTree, imagePrefix, pc, imageNodes, imagesToResolve,
    imagePromises, resolvedImages, calls, naming>>

NoCalls == [existsSync |-> 0, imageMetadata |-> 0, getImage |-> 0, warn |-> 0]

EmptyMap == [k \in {} |-> ""]

NoNaming == [absolutePath |-> "", called |-> FALSE, result |-> Returned("")]

(***************************************************************************)
(* The visitor (lines 46-91).                                              *)
(***************************************************************************)
\* the test of lines 47-57: the node is an img element whose src is a
\* non-empty string of file.data.imagePaths
IsCollectedImage(node, imagePaths) ==
  /\ node.type = "element"
  /\ node.tagName = "img"
  /\ node.src.isString
  /\ node.src.value # ""
  /\ node.src.value \in imagePaths.refs

MapHas(map, key) == \E i \in 1..Len(map) : map[i].relativePath = key

\* lines 68-83
AbsolutePathOf(src, filePath) ==
  IF StartsWith(src, "~/assets/")
  THEN PathResolve(<<rootPath, "src", "assets", SliceFrom(src, Len("~/assets/"))>>)
  ELSE PathResolve(<<PathDirname(filePath), src>>)

\* a variant without the test of line 63: a src seen before is resolved again
VisitNodeNoDedup(st, nodes, i, f) ==
  LET src == nodes[i].src.value
      absolutePath == AbsolutePathOf(src, f.path)
  IN IF ~IsCollectedImage(nodes[i], f.imagePaths) THEN st
     ELSE IF ~existsSync(absolutePath)
       THEN [st EXCEPT !.existsSync = @ + 1]
     ELSE [imageNodes |-> Append(st.imageNodes, i),
           imagesToResolve |->
             Append(st.imagesToResolve,
                    [relativePath |-> src, absolutePath |-> absolutePath]),
           existsSync |-> st.existsSync + 1]

\* a variant without the test of line 85: a missing file is resolved too
VisitNodeNoExistsCheck(st, nodes, i, f) ==
  LET src == nodes[i].src.value
      absolutePath == AbsolutePathOf(src, f.path)
  IN IF ~IsCollectedImage(nodes[i], f.imagePaths) THEN st
     ELSE IF MapHas(st.imagesToResolve, src)
       THEN [st EXCEPT !.imageNodes = Append(@, i)]
     ELSE [imageNodes |-> Append(st.imageNodes, i),
           imagesToResolve |->
             Append(st.imagesToResolve,
                    [relativePath |-> src, absolutePath |-> absolutePath]),
           existsSync |-> st.existsSync]

\* the callback of visit on one node, st being [imageNodes, imagesToResolve, existsSync]
VisitNode(st, nodes, i, f) ==
  LET src == nodes[i].src.value
      absolutePath == AbsolutePathOf(src, f.path)
  IN IF ~IsCollectedImage(nodes[i], f.imagePaths) THEN st
     ELSE IF MapHas(st.imagesToResolve, src)
       THEN [st EXCEPT !.imageNodes = Append(@, i)]
     ELSE IF ~existsSync(absolutePath)
       THEN [st EXCEPT !.existsSync = @ + 1]
     ELSE [imageNodes |-> Append(st.imageNodes, i),
           imagesToResolve |->
             Append(st.imagesToResolve,
                    [relativePath |-> src, absolutePath |-> absolutePath]),
           existsSync |-> st.existsSync + 1]

RECURSIVE VisitFrom(_, _, _, _)
VisitFrom(st, nodes, i, f) ==
  IF i > Len(nodes) THEN st
  ELSE VisitFrom(VisitNode(st, nodes, i, f), nodes, i + 1, f)

Visit(nodes, f) ==
  VisitFrom([imageNodes |-> <<>>, imagesToResolve |-> <<>>, existsSync |-> 0],
            nodes, 1, f)

(***************************************************************************)
(* The transformer, up to its await (lines 28-118).                        *)
(***************************************************************************)
\* a variant that tests the file's path alone
NothingToDoPathOnly(f) == f.path = ""

\* lines 29-35
NothingToDo(f) ==
  f.path = "" \/ f.imagePaths.kind # "set" \/ Cardinality(f.imagePaths.refs) = 0

Pending(entry) ==
  [state |-> "imageMetadata", relativePath |-> entry.relativePath,
   absolutePath |-> entry.absolutePath, assetPath |-> "", value |-> "", reason |-> ""]

Transform ==
  /\ pc = "idle"
  /\ IF NothingToDo(file)
     THEN /\ pc' = "done"
          /\ UNCHANGED <<imageNodes, imagesToResolve, imagePromises, calls>>
     ELSE LET st == Visit(tree, file) IN
          /\ imageNodes' = st.imageNodes
          /\ imagesToResolve' = st.imagesToResolve
          /\ imagePromises' =
               [i \in 1..Len(st.imagesToResolve) |-> Pending(st.imagesToResolve[i])]
          /\ calls' = [calls EXCEPT !.existsSync = st.existsSync,
                                    !.imageMetadata = Len(st.imagesToResolve)]
          /\ pc' = "awaiting"
  /\ UNCHANGED <<options, file, tree, inputTree, imagePrefix, resolvedImages, naming>>

(***************************************************************************)
(* The pipeline of one image (lines 97-112).                               *)
(***************************************************************************)
Rejected(p, reason) == [p EXCEPT !.state = "rejected", !.reason = reason]

\* the first .then callback, run with the metadata imageMetadata resolved to
\* (assetPath ranges over a one element set so that it is computed once)
OnMetadata(p, meta) ==
  IF ~meta THEN Rejected(p, "Error: Failed to get metadata for image")
  ELSE CHOOSE q \in
         {IF assetPath.threw THEN Rejected(p, assetPath.value)
          ELSE [p EXCEPT !.state = "getImage", !.assetPath = assetPath.value] :
            assetPath \in {getImageAssetFileName(p.absolutePath, options.viteConfig)}} :
         TRUE

\* imageMetadata's promise settles: it rejects, or resolves to nothing or to
\* the metadata, and the first callback runs
ImageMetadataSettles(i) ==
  /\ pc = "awaiting"
  /\ imagePromises[i].state = "imageMetadata"
  /\ \E outcome \in {"rejects", "nothing", "metadata"} :
       /\ imagePromises' =
            [imagePromises EXCEPT ![i] =
               IF outcome = "rejects" THEN Rejected(@, "imageMetadata rejected")
               ELSE OnMetadata(@, outcome = "metadata")]
       /\ calls' = [calls EXCEPT !.getImage =
                      @ + (IF imagePromises'[i].state = "getImage" THEN 1 ELSE 0)]
  /\ UNCHANGED <<options, file, tree, inputTree, imagePrefix, pc, imageNodes,
                 imagesToResolve, resolvedImages, naming>>

\* the src of the image getImage resolves to
ImageSrc(assetPath) == imagePrefix \o assetPath

\* getImage's promise settles: it rejects, or resolves and the second
\* callback makes the pair [relativePath, image.src]
GetImageSettles(i) ==
  /\ pc = "awaiting"
  /\ imagePromises[i].state = "getImage"
  /\ \E fulfils \in BOOLEAN :
       LET p == imagePromises[i]
       IN imagePromises' =
            [imagePromises EXCEPT ![i] =
              IF fulfils
              THEN [p EXCEPT !.state = "fulfilled", !.value = ImageSrc(p.assetPath)]
              ELSE Rejected(p, "getImage rejected")]
  /\ UNCHANGED <<options, file, tree, inputTree, imagePrefix, pc, imageNodes,
                 imagesToResolve, resolvedImages, calls, naming>>

(***************************************************************************)
(* After the await (lines 115-138).                                        *)
(***************************************************************************)
Settled(p) == p.state \in {"fulfilled", "rejected"}

AllSettled == \A i \in 1..Len(imagePromises) : Settled(imagePromises[i])

Fulfilled(promises) == {i \in 1..Len(promises) : promises[i].state = "fulfilled"}

\* lines 117-124: the Map of the fulfilled results (the keys are distinct)
ResolvedImagesOf(promises) ==
  [k \in {promises[i].relativePath : i \in Fulfilled(promises)} |->
     LET i == CHOOSE j \in Fulfilled(promises) : promises[j].relativePath = k
     IN promises[i].value]

\* lines 129-136: the src written for a resolved src
WrittenSrc(resolvedSrc) ==
  IF options.rootUrl.defined THEN NewURL(resolvedSrc, options.rootUrl)
  ELSE absolutize(resolvedSrc)

\* lines 127-137 on one node
RewriteNode(node, resolved) ==
  LET src == node.src.value
      resolvedSrc == IF src \in DOMAIN resolved THEN resolved[src] ELSE ""
  IN IF resolvedSrc = "" THEN node
     ELSE [node EXCEPT !.src.value = WrittenSrc(resolvedSrc)]

\* lines 126-138
Rewrite(nodes, toRewrite, resolved) ==
  [i \in 1..Len(nodes) |->
     IF \E j \in 1..Len(toRewrite) : toRewrite[j] = i
     THEN RewriteNode(nodes[i], resolved) ELSE nodes[i]]

\* a variant with Promise.all in the place of Promise.allSettled: the first
\* rejection rejects the await, and the transformer with it
JoinFailFast ==
  /\ pc = "awaiting"
  /\ \/ /\ \E i \in 1..Len(imagePromises) : imagePromises[i].state = "rejected"
        /\ pc' = "rejected"
        /\ UNCHANGED <<resolvedImages, calls, tree>>
     \/ /\ \A i \in 1..Len(imagePromises) : imagePromises[i].state = "fulfilled"
        /\ resolvedImages' = ResolvedImagesOf(imagePromises)
        /\ tree' = Rewrite(tree, imageNodes, resolvedImages')
        /\ pc' = "done"
        /\ UNCHANGED calls
  /\ UNCHANGED <<options, file, inputTree, imagePrefix, imageNodes, imagesToResolve,
                 imagePromises, naming>>

\* a variant that goes on as soon as one promise has settled
JoinOnFirstSettled ==
  /\ pc = "awaiting"
  /\ \/ imagePromises = <<>>
     \/ \E i \in 1..Len(imagePromises) : Settled(imagePromises[i])
  /\ resolvedImages' = ResolvedImagesOf(imagePromises)
  /\ calls' = [calls EXCEPT !.warn =
                 Cardinality({i \in 1..Len(imagePromises) :
                                imagePromises[i].state = "rejected"})]
  /\ tree' = Rewrite(tree, imageNodes, resolvedImages')
  /\ pc' = "done"
  /\ UNCHANGED <<options, file, inputTree, imagePrefix, imageNodes, imagesToResolve,
                 imagePromises, naming>>

\* Promise.allSettled resolves once every promise has settled; the rest of
\* the transformer runs in one go
Join ==
  /\ pc = "awaiting"
  /\ AllSettled
  /\ resolvedImages' = ResolvedImagesOf(imagePromises)
  /\ calls' = [calls EXCEPT !.warn =
                 Cardinality({i \in 1..Len(imagePromises) :
                                imagePromises[i].state = "rejected"})]
  /\ tree' = Rewrite(tree, imageNodes, resolvedImages')
  /\ pc' = "done"
  /\ UNCHANGED <<options, file, inputTree, imagePrefix, imageNodes, imagesToResolve,
                 imagePromises, naming>>

(***************************************************************************)
(* The specification of one pass.                                          *)
(***************************************************************************)
PassViteConfigs ==
  {NoViteConfig,
   [output |-> "array", assetFileNames |-> NoAssetFileNames],
   OutputWith("string", "img/[name].[hash:4][extname]"),
   OutputWith("string", "assets/[name]-[unknown][extname]")}

\* the plugin's options and the optimizer's prefix of a pass: every naming
\* configuration without a rootUrl, and a rootUrl with the default naming; a
\* naming configuration that throws never reaches the optimizer's prefix
PassSettings ==
  {[options |-> [rootUrl |-> u, viteConfig |-> c], imagePrefix |-> x] :
     u \in RootUrls, c \in PassViteConfigs, x \in ImagePrefixes}

PassInputs ==
  {s \in PassSettings :
     /\ s.options.rootUrl.defined => s.options.viteConfig = NoViteConfig
     /\ getImageAssetFileName("/proj/src/pages/b.png", s.options.viteConfig).threw
          => s.imagePrefix = "/_astro/"}

Init ==
  /\ tree \in Trees
  /\ inputTree = tree
  /\ \/ /\ file = CollectedFile
        /\ \E s \in PassInputs : options = s.options /\ imagePrefix = s.imagePrefix
     \/ /\ file \in EmptyFiles
        /\ options = [rootUrl |-> NoRootUrl, viteConfig |-> NoViteConfig]
        /\ imagePrefix = "/_astro/"
  /\ pc = "idle"
  /\ imageNodes = <<>>
  /\ imagesToResolve = <<>>
  /\ imagePromises = <<>>
  /\ resolvedImages = EmptyMap
  /\ calls = NoCalls
  /\ naming = NoNaming

Next ==
  \/ Transform
  \/ \E i \in 1..Len(imagePromises) : ImageMetadataSettles(i)
  \/ \E i \in 1..Len(imagePromises) : GetImageSettles(i)
  \/ Join

Spec == Init /\ [][Next]_vars

\* the event loop runs the continuation of an await whose promise has
\* settled; nothing makes the optimizer settle a pipeline
FairSpec == Spec /\ WF_vars(Join)

(***************************************************************************)
(* The asset naming on its own: getImageAssetFileName applied once to a    *)
(* file under a naming configuration.                                      *)
(***************************************************************************)
HashToken(n) == "[hash:" \o NumberToString(n) \o "]"

Tokens ==
  {"[name]", "[ext]", "[extname]", "[hash]", "[unknown]", "[toString]",
   "[constructor:3]", "[hash:x]", "[name", "plain"}
  \cup {HashToken(n) : n \in 0..MaxHashSize}

NamingPatterns ==
  {pre \o tok \o post :
     pre \in {"", "assets/[name]-"}, tok \in Tokens, post \in {"", "[extname]"}}

NamingViteConfigs ==
  {NoViteConfig, [output |-> "array", assetFileNames |-> NoAssetFileNames],
   [output |-> "object", assetFileNames |-> NoAssetFileNames]}
  \cup {OutputWith(kind, value) :
          kind \in {"string", "function"}, value \in NamingPatterns \cup {""}}

NamingInit ==
  /\ options \in [rootUrl : {NoRootUrl}, viteConfig : NamingViteConfigs]
  /\ naming \in [absolutePath : ExistingFiles, called : {FALSE}, result : {Returned("")}]
  /\ file = CollectedFile
  /\ tree = <<>>
  /\ inputTree = <<>>
  /\ imagePrefix = "/_astro/"
  /\ pc = "idle"
  /\ imageNodes = <<>>
  /\ imagesToResolve = <<>>
  /\ imagePromises = <<>>
  /\ resolvedImages = EmptyMap
  /\ calls = NoCalls

NameAsset ==
  /\ ~naming.called
  /\ naming' = [naming EXCEPT
                  !.called = TRUE,
                  !.result = getImageAssetFileName(naming.absolutePath, options.viteConfig)]
  /\ UNCHANGED <<options, file, tree, inputTree, imagePrefix, pc, imageNodes,
                 imagesToResolve, imagePromises, resolvedImages, calls>>

NamingNext == NameAsset

NamingSpec == NamingInit /\ [][NamingNext]_vars

(***************************************************************************)
(* Properties.                                                             *)
(***************************************************************************)
Nodes == 1..Len(inputTree)

Promises == 1..Len(imagePromises)

\* node i came in as an img element whose src is the reference of pipeline j
NodeOfPipeline(i, j) ==
  /\ inputTree[i].type = "element"
  /\ inputTree[i].tagName = "img"
  /\ inputTree[i].src.isString
  /\ inputTree[i].src.value = imagePromises[j].relativePath

\* the file carries a path and a Set of references
HasImagePaths == file.path # "" /\ file.imagePaths.kind = "set"

\* node i came in as an eligible img element: its src is a collected reference
Eligible(i) ==
  /\ HasImagePaths
  /\ inputTree[i].type = "element"
  /\ inputTree[i].tagName = "img"
  /\ inputTree[i].src.isString
  /\ inputTree[i].src.value \in file.imagePaths.refs

\* the file each reference of the model names, seen from the document
FileOf(ref) ==
  CASE ref = AliasRef -> "/proj/src/assets/photo.png"
    [] ref = DotRef -> "/proj/src/pages/b.png"
    [] ref = BareRef -> "/proj/src/pages/b.png"
    [] ref = MissingRef -> "/proj/src/pages/missing.png"
    [] ref = UncollectedRef -> "/proj/src/pages/c.tar.gz"

\* the eligible references whose file is on disk
ResolvableRefs ==
  {inputTree[i].src.value :
     i \in {k \in Nodes : Eligible(k) /\ FileOf(inputTree[k].src.value) \in ExistingFiles}}

\* the transformer's promise has settled
PassSettled == pc \in {"done", "rejected"}

\* C1: whatever the pipelines did and in whatever order, the pass does not
\* reject, and once it is done every img node of a fulfilled pipeline carries
\* the src written from that pipeline's own result while every img node of a
\* rejected pipeline is as it came in.
C1_FailureIsIsolated ==
  /\ pc # "rejected"
  /\ pc = "done" =>
       \A i \in Nodes : \A j \in Promises :
         NodeOfPipeline(i, j) =>
           /\ imagePromises[j].state = "fulfilled" =>
                /\ tree[i].src.value = WrittenSrc(imagePromises[j].value)
                /\ tree[i] # inputTree[i]
           /\ imagePromises[j].state = "rejected" => tree[i] = inputTree[i]

\* a finished pass of three pipelines, one of them rejected and two fulfilled
C1_Witness ==
  /\ pc = "done"
  /\ Len(imagePromises) = 3
  /\ Cardinality({j \in Promises : imagePromises[j].state = "rejected"}) = 1
  /\ Cardinality({j \in Promises : imagePromises[j].state = "fulfilled"}) = 2
  /\ \E i \in Nodes : tree[i] # inputTree[i]
  /\ \E i \in Nodes : \E j \in Promises :
       NodeOfPipeline(i, j) /\ imagePromises[j].state = "rejected"

\* C2: with an array valued output and a resolvable reference the pass fails:
\* no pass is done in which getImageAssetFileName threw its Error.
C2_ArrayOutputFailsThePass ==
  (/\ options.viteConfig.output = "array"
   /\ \E j \in Promises : imagePromises[j].reason = MultipleOutputsError)
  => pc # "done"

\* C3: an unknown token fails the pass: no pass is done in which the
\* rendering of the pattern threw.
C3_UnknownTokenFailsThePass ==
  (\E j \in Promises : imagePromises[j].reason = NotAFunctionError) => pc # "done"

\* C4 as stated: once dispatched, the pipelines are as many as the distinct
\* absolute paths of the resolvable references.
C4_OncePerAbsolutePath ==
  pc # "idle" =>
    calls.imageMetadata =
      Cardinality({FileOf(r) : r \in ResolvableRefs})

\* C4 amended: once dispatched, the pipelines are as many as the distinct
\* reference strings that are eligible and on disk, one pipeline per string;
\* imageMetadata is called once per pipeline and getImage at most once.
C4_OncePerReference ==
  pc # "idle" =>
    /\ calls.imageMetadata = Cardinality(ResolvableRefs)
    /\ Len(imagePromises) = Cardinality(ResolvableRefs)
    /\ {imagePromises[j].relativePath : j \in Promises} = ResolvableRefs
    /\ calls.getImage =
         Cardinality({j \in Promises :
                        \/ imagePromises[j].state \in {"getImage", "fulfilled"}
                        \/ imagePromises[j].reason = "getImage rejected"})

\* three nodes, two reference strings, one file: two pipelines
C4_Witness ==
  /\ pc = "done"
  /\ Len(imageNodes) = 3
  /\ Len(imagePromises) = 2
  /\ imagePromises[1].absolutePath = imagePromises[2].absolutePath
  /\ calls.getImage = 2

\* node i came in as an eligible img element whose file is not on disk
MissingOnDisk(i) ==
  /\ Eligible(i)
  /\ FileOf(inputTree[i].src.value) \notin ExistingFiles

\* C5: an eligible reference whose file is not on disk gets no pipeline, does
\* not fail the pass and keeps its node as it came in, while the nodes of the
\* fulfilled pipelines of the same document are rewritten.
C5_MissingFileIsSkipped ==
  /\ \A i \in Nodes :
       MissingOnDisk(i) =>
         /\ \A j \in Promises : imagePromises[j].relativePath # inputTree[i].src.value
         /\ tree[i] = inputTree[i]
         /\ pc # "rejected"
  /\ pc = "done" =>
       \A i \in Nodes : \A j \in Promises :
         (NodeOfPipeline(i, j) /\ imagePromises[j].state = "fulfilled")
           => tree[i] # inputTree[i]

\* a finished pass over a missing reference and a rewritten one
C5_Witness ==
  /\ pc = "done"
  /\ \E i \in Nodes : MissingOnDisk(i)
  /\ \E i \in Nodes : tree[i] # inputTree[i]
  /\ calls.existsSync >= 2

\* C6: with no path, no Set or an empty Set the pass touches nothing: no
\* node changes and neither existsSync nor the optimizer is called.
C6_NothingToDoIsNoOp ==
  (file.path = "" \/ file.imagePaths.kind # "set" \/ file.imagePaths.refs = {}) =>
    /\ tree = inputTree
    /\ calls = NoCalls
    /\ imagePromises = <<>>
    /\ pc \in {"idle", "done"}

\* a finished pass over a document that has an img node of a file on disk
C6_Witness ==
  /\ file.path = "" \/ file.imagePaths.kind # "set" \/ file.imagePaths.refs = {}
  /\ pc = "done"
  /\ \E i \in Nodes : inputTree[i] = Element("img", DotRef)

\* C7: without a rootUrl the src written to a node is the optimizer's src.
C7_NoRootUrlWritesResolvedSrc ==
  (pc = "done" /\ ~options.rootUrl.defined) =>
    \A i \in Nodes : \A j \in Promises :
      (NodeOfPipeline(i, j) /\ imagePromises[j].state = "fulfilled")
        => tree[i].src.value = imagePromises[j].value

\* the base name of the model's files, in stem and extension
FileParts(absolutePath) ==
  CASE absolutePath = "/proj/src/assets/photo.png" -> [stem |-> "photo", ext |-> ".png"]
    [] absolutePath = "/proj/src/pages/b.png" -> [stem |-> "b", ext |-> ".png"]
    [] OTHER -> [stem |-> "c.tar", ext |-> ".gz"]

\* C8: in assets/[name]-[hash:N][extname] the token [hash:N] becomes the first
\* N characters of the sha256 hex digest, for every N from 1 on.
C8_HashTruncatedToN ==
  \A n \in 1..MaxHashSize :
    (/\ naming.called
     /\ options.viteConfig =
          OutputWith("string", "assets/[name]-" \o HashToken(n) \o "[extname]"))
    => naming.result =
         Returned("assets/" \o FileParts(naming.absolutePath).stem \o "-"
                  \o SubSeq(Sha256Hex(naming.absolutePath), 1, n)
                  \o FileParts(naming.absolutePath).ext)

AssetFileNamesIsFunction ==
  /\ options.viteConfig.output = "object"
  /\ options.viteConfig.assetFileNames.kind = "function"

\* C9 as stated: the name handed to the optimizer is the function's return
\* value, whatever the string.
C9_FunctionResultVerbatim ==
  (naming.called /\ AssetFileNamesIsFunction)
    => naming.result = Returned(options.viteConfig.assetFileNames.value)

\* what a piece of a pattern stands for
Expansion(piece, absolutePath) ==
  LET parts == FileParts(absolutePath)
      digest == Sha256Hex(absolutePath)
  IN CASE piece = "[name]" -> parts.stem
       [] piece = "[ext]" -> SubSeq(parts.ext, 2, Len(parts.ext))
       [] piece = "[extname]" -> parts.ext
       [] piece = "[hash]" -> SubSeq(digest, 1, 8)
       [] piece = "assets/[name]-" -> "assets/" \o parts.stem \o "-"
       [] \E n \in 1..8 : piece = HashToken(n) ->
            SubSeq(digest, 1, CHOOSE n \in 1..8 : piece = HashToken(n))
       [] OTHER -> piece

\* the pieces with a defined expansion: no token, or a known token
Expandable ==
  {"", "plain", "[name", "[hash:x]", "[name]", "[ext]", "[extname]", "[hash]",
   "assets/[name]-"} \cup {HashToken(n) : n \in 1..8}

\* C9 amended: the function's return value is used as the naming pattern: its
\* known tokens are substituted, a return value without tokens is the name
\* handed to the optimizer, and every non-empty return value names the asset
\* as the same text given as a string pattern does.
C9_FunctionResultIsPattern ==
  /\ \A pre \in {"", "assets/[name]-"}, tok \in Expandable, post \in {"", "[extname]"} :
       (/\ naming.called
        /\ AssetFileNamesIsFunction
        /\ options.viteConfig.assetFileNames.value = pre \o tok \o post)
       => naming.result =
            Returned(Expansion(pre, naming.absolutePath)
                     \o Expansion(tok, naming.absolutePath)
                     \o Expansion(post, naming.absolutePath))
  /\ (/\ naming.called
      /\ AssetFileNamesIsFunction
      /\ options.viteConfig.assetFileNames.value # "")
     => naming.result =
          getImageAssetFileName(
            naming.absolutePath,
            OutputWith("string", options.viteConfig.assetFileNames.value))

\* a function returning assets/[name]-[hash][extname] named photo.png
C9_Witness ==
  /\ naming.called
  /\ AssetFileNamesIsFunction
  /\ options.viteConfig.assetFileNames.value = "assets/[name]-[hash][extname]"
  /\ naming.result = Returned("assets/photo-abcdef12.png")

\* C10, in every state: every pipeline exists before any has settled, no node
\* is rewritten and the pass has not settled while a pipeline is pending.
JoinWaitsForAll ==
  /\ pc = "idle" => imagePromises = <<>>
  /\ pc # "idle" => Len(imagePromises) = Len(imagesToResolve)
  /\ ~AllSettled => tree = inputTree /\ ~PassSettled
  /\ PassSettled => AllSettled

\* C10: the join is a settle-all join: the above always holds, and the pass
\* completes once every pipeline has settled (and, by the above, not before).
C10_SettleAllJoin ==
  /\ []JoinWaitsForAll
  /\ (pc = "awaiting" /\ AllSettled) ~> (pc = "done")

\* a finished pass in which a pipeline rejected before another one fulfilled
C10_Witness ==
  /\ pc = "done"
  /\ Len(imagePromises) >= 2
  /\ \E j \in Promises : imagePromises[j].state = "rejected"
  /\ \E j \in Promises : imagePromises[j].state = "fulfilled"
  /\ tree # inputTree
  /\ calls.warn >= 1

====
